---- MODULE Spec2Model ----
(***************************************************************************)
(* host-injector: a mutating admission webhook that appends host aliases   *)
(* derived from the cluster's Services to Pods carrying the k8s-app label. *)
(*                                                                         *)
(* The repository holds two programs with the same handler names:          *)
(*   src/main.go            (build MainGo)                                 *)
(*   src/unnamed/part_000   (build Part000)                                *)
(* Both are modelled; a request is served by one of the two builds.        *)
(***************************************************************************)
EXTENDS Naturals, Integers, Sequences, FiniteSets, TLC

\* ------------------------------------------------------------------ bounds

\* Number of request slots (goroutines the HTTP server may run at once).
NReq == 2
\* Longest Service listing the directory returns.
MaxServices == 2

\* --------------------------------------------------------------- constants

watchingLabelKey == "k8s-app"
StatusBadRequest == 400
StatusInternalServerError == 500
PatchTypeJSONPatch == "JSONPatch"
ServiceTypeClusterIP == "ClusterIP"

MainGo == "main.go"
Part000 == "part_000"
Builds == {MainGo, Part000}

\* ------------------------------------------------------------ input domains

UIDs == {"uid-1", "uid-2"}

Svc(n, ns, t, ip) == [name |-> n, namespace |-> ns, type |-> t, clusterIP |-> ip]

\* Two qualifying Services and one of each non-qualifying shape.
Services ==
    { Svc("db", "prod", "ClusterIP", "10.0.0.5"),
      Svc("web", "dev", "ClusterIP", "10.0.0.6"),
      Svc("hl", "prod", "ClusterIP", "None"),
      Svc("pending", "prod", "ClusterIP", ""),
      Svc("np", "prod", "NodePort", "10.0.0.7"),
      Svc("ext", "prod", "ExternalName", "") }

SeqsUpTo(S, n) == UNION { [1..k -> S] : k \in 0..n }

\* What Services("").List can hand back: a listing, or an error.
ListOK(items) == [err |-> "", items |-> items]
ListErr(e) == [err |-> e, items |-> <<>>]
ListOutcomes ==
    { ListOK(items) : items \in SeqsUpTo(Services, MaxServices) }
        \cup { ListErr("connection refused") }
\* The outcomes used when requests run concurrently.
ListOutcomesSmall ==
    { ListOK(<<>>), ListOK(<<Svc("db", "prod", "ClusterIP", "10.0.0.5")>>),
      ListErr("connection refused") }

\* A label mapping as JSON carries it: absent, or a set of key/value pairs.
Labels(p, kv) == [present |-> p, kv |-> kv]
LabelSets ==
    { Labels(FALSE, {}), Labels(TRUE, {}),
      Labels(TRUE, {<<"k8s-app", "x">>}),
      Labels(TRUE, {<<"k8s-app", "">>}),
      Labels(TRUE, {<<"app", "y">>}) }

HostAlias(ip, names) == [IP |-> ip, Hostnames |-> names]
\* A host-alias list as JSON carries it: absent, or an array.
Aliases(p, items) == [present |-> p, items |-> items]
PreAlias == HostAlias("127.0.0.1", <<"local">>)
AliasLists == { Aliases(FALSE, <<>>), Aliases(TRUE, <<>>), Aliases(TRUE, <<PreAlias>>) }

\* The rest of a Pod document:
\*   canonical: as the API server serialises a Pod (creationTimestamp:null, status:{})
\*   sparse:    the same Pod without its status member
\*   badtype:   valid JSON whose spec.containers is a string
Rests == {"canonical", "sparse", "badtype"}

Doc(l, h, r) == [labels |-> l, hostAliases |-> h, rest |-> r]
Docs == { Doc(l, h, r) : l \in LabelSets, h \in AliasLists, r \in Rests }

\* request.object.raw: bytes that are a JSON document, or are not JSON at all.
Raw(v, d) == [valid |-> v, doc |-> d]
NotJSON == Raw(FALSE, Doc(Labels(FALSE, {}), Aliases(FALSE, <<>>), "canonical"))
Raws == { Raw(TRUE, d) : d \in Docs } \cup {NotJSON}
RawsSmall ==
    { Raw(TRUE, Doc(Labels(TRUE, {<<"k8s-app", "x">>}), Aliases(FALSE, <<>>), "canonical")),
      Raw(TRUE, Doc(Labels(FALSE, {}), Aliases(FALSE, <<>>), "canonical")) }

\* ---------------------------------------------------------- decoded objects

\* corev1.Pod as far as the handler reads and writes it.  A nil map and an
\* empty map read alike; a nil slice and an empty slice are told apart by nil.
Pod(l, n, h) == [Labels |-> l, HostAliasesNil |-> n, HostAliases |-> h]
ZeroPod == Pod({}, TRUE, <<>>)

\* json.Unmarshal(raw, &pod): a syntax error stores nothing; a type mismatch
\* in one field is reported after the other fields have been stored.
Unmarshal(raw) ==
    IF ~raw.valid
    THEN [err |-> "invalid character", pod |-> ZeroPod]
    ELSE [err |-> IF raw.doc.rest = "badtype"
                  THEN "cannot unmarshal string into Go struct field"
                  ELSE "",
          pod |-> Pod(raw.doc.labels.kv,
                      ~raw.doc.hostAliases.present,
                      raw.doc.hostAliases.items)]

\* json.Marshal(pod): labels and hostAliases carry omitempty; the zero
\* status is always written.
Marshal(pod) ==
    Doc(Labels(pod.Labels # {}, pod.Labels),
        Aliases(Len(pod.HostAliases) > 0, pod.HostAliases),
        "canonical")

\* -------------------------------------------------------------- isWatching

isWatchingAnyPod(pod) == TRUE

isWatching(pod) == \E p \in pod.Labels : p[1] = watchingLabelKey

\* ---------------------------------------------- getHostAliasesFromServices

RECURSIVE hostAliasesLoop(_, _, _)
hostAliasesLoop(items, i, hostAliases) ==
    IF i > Len(items) THEN hostAliases
    ELSE LET service == items[i] IN
         IF service.type # ServiceTypeClusterIP
         THEN hostAliasesLoop(items, i + 1, hostAliases)
         ELSE IF service.clusterIP = "" \/ service.clusterIP = "None"
         THEN hostAliasesLoop(items, i + 1, hostAliases)
         ELSE LET domain1 == service.name \o "." \o service.namespace \o ".svc.cluster.local"
                  domain2 == service.name \o "." \o service.namespace \o ".svc"
                  domain3 == service.name \o "." \o service.namespace
              IN hostAliasesLoop(items, i + 1,
                     Append(hostAliases,
                            HostAlias(service.clusterIP, <<domain1, domain2, domain3>>)))

RECURSIVE hostAliasesLoopNoHeadlessCheck(_, _, _)
hostAliasesLoopNoHeadlessCheck(items, i, hostAliases) ==
    IF i > Len(items) THEN hostAliases
    ELSE LET service == items[i] IN
         IF service.type # ServiceTypeClusterIP \/ service.clusterIP = ""
         THEN hostAliasesLoopNoHeadlessCheck(items, i + 1, hostAliases)
         ELSE hostAliasesLoopNoHeadlessCheck(items, i + 1,
                  Append(hostAliases,
                         HostAlias(service.clusterIP,
                                   << service.name \o "." \o service.namespace \o ".svc.cluster.local",
                                      service.name \o "." \o service.namespace \o ".svc",
                                      service.name \o "." \o service.namespace >>)))

getHostAliasesFromServicesNoHeadlessCheck(outcome) ==
    IF outcome.err # "" THEN [err |-> outcome.err, hostAliases |-> <<>>]
    ELSE [err |-> "", hostAliases |-> hostAliasesLoopNoHeadlessCheck(outcome.items, 1, <<>>)]

\* outcome is what client().CoreV1().Services("").List returned.
getHostAliasesFromServices(outcome) ==
    IF outcome.err # "" THEN [err |-> outcome.err, hostAliases |-> <<>>]
    ELSE IF Len(outcome.items) = 0 THEN [err |-> "", hostAliases |-> <<>>]
    ELSE [err |-> "", hostAliases |-> hostAliasesLoop(outcome.items, 1, <<>>)]

\* ------------------------------------------------------------- JSON Patch

\* One jsonpatch operation.  idx is the array index closing the path (-1: none);
\* aliases, kv and sval hold the value by the kind of member addressed.
Op(op, path, idx, aliases, kv, sval) ==
    [op |-> op, path |-> path, idx |-> idx, aliases |-> aliases, kv |-> kv, sval |-> sval]

IsPrefix(s, t) == Len(s) <= Len(t) /\ SubSeq(t, 1, Len(s)) = s

labelOps(a, b) ==
    IF a.present /\ ~b.present THEN <<Op("remove", "/metadata/labels", -1, <<>>, {}, "")>>
    ELSE IF ~a.present /\ b.present THEN <<Op("add", "/metadata/labels", -1, <<>>, b.kv, "")>>
    ELSE IF a.kv # b.kv THEN <<Op("replace", "/metadata/labels", -1, <<>>, b.kv, "")>>
    ELSE <<>>

containerOps(a, b) ==
    IF a = "badtype" /\ b # "badtype"
    THEN <<Op("replace", "/spec/containers", -1, <<>>, {}, "null")>>
    ELSE <<>>

aliasOps(a, b) ==
    IF ~a.present /\ ~b.present THEN <<>>
    ELSE IF ~a.present THEN <<Op("add", "/spec/hostAliases", -1, b.items, {}, "")>>
    ELSE IF ~b.present THEN <<Op("remove", "/spec/hostAliases", -1, <<>>, {}, "")>>
    ELSE IF IsPrefix(a.items, b.items)
    THEN [i \in 1..(Len(b.items) - Len(a.items)) |->
             Op("add", "/spec/hostAliases/", Len(a.items) + i - 1,
                <<b.items[Len(a.items) + i]>>, {}, "")]
    ELSE <<Op("replace", "/spec/hostAliases", -1, b.items, {}, "")>>

statusOps(a, b) ==
    IF a = "sparse" /\ b = "canonical"
    THEN <<Op("add", "/status", -1, <<>>, {}, "{}")>>
    ELSE <<>>

\* jsonpatch.CreatePatch(original, current): the operations turning the
\* original document into the current one; an error when original is not JSON.
CreatePatch(original, current) ==
    IF ~original.valid THEN [err |-> "Invalid JSON Document", patches |-> <<>>]
    ELSE [err |-> "",
          patches |-> labelOps(original.doc.labels, current.labels)
                        \o containerOps(original.doc.rest, current.rest)
                        \o aliasOps(original.doc.hostAliases, current.hostAliases)
                        \o statusOps(original.doc.rest, current.rest)]

\* Bytes are sequences of JSON tokens: an operation object, or punctuation.
LBR == [t |-> "["]
RBR == [t |-> "]"]
COMMA == [t |-> ","]
OpToken(o) == [t |-> "op", o |-> o]

\* p.MarshalJSON(): the bytes of one operation object.
OpMarshalJSON(p) == <<OpToken(p)>>

RECURSIVE commaJoin(_, _)
commaJoin(ops, i) ==
    IF i > Len(ops) THEN <<>>
    ELSE (IF i > 1 THEN <<COMMA>> ELSE <<>>) \o OpMarshalJSON(ops[i]) \o commaJoin(ops, i + 1)

\* json.Marshal of a list of operations: one JSON array.
MarshalOpList(ops) == <<LBR>> \o commaJoin(ops, 1) \o <<RBR>>

\* -------------------------------------------------------------- responses

\* v1.AdmissionResponse in memory.  PatchType "" is the nil pointer.
NoStatus == [present |-> FALSE, Code |-> 0, Message |-> ""]
Status(code, msg) == [present |-> TRUE, Code |-> code, Message |-> msg]
NilBytes == [nil |-> TRUE, bytes |-> <<>>]
Bytes(b) == [nil |-> FALSE, bytes |-> b]
AdmissionResponse(uid, allowed, result, warnings, patch, patchType) ==
    [UID |-> uid, Allowed |-> allowed, Result |-> result, Warnings |-> warnings,
     Patch |-> patch, PatchType |-> patchType]

responseErrored(uid, code, err) ==
    AdmissionResponse(uid, FALSE, Status(code, err), <<>>, NilBytes, "")

responseAllowed(uid, msg) ==
    AdmissionResponse(uid, TRUE, Status(0, msg), <<>>, NilBytes, "")

RECURSIVE patchBytesLoop(_, _, _)
patchBytesLoop(patches, i, patchBytes) ==
    IF i > Len(patches) THEN patchBytes
    ELSE patchBytesLoop(patches, i + 1, patchBytes \o OpMarshalJSON(patches[i]))

patchResponseFromRawAlwaysTyped(uid, original, current) ==
    LET cp == CreatePatch(original, current) IN
    IF cp.err # "" THEN responseErrored(uid, StatusInternalServerError, cp.err)
    ELSE AdmissionResponse(uid, TRUE, NoStatus, <<>>,
                           Bytes(patchBytesLoop(cp.patches, 1, <<>>)),
                           PatchTypeJSONPatch)

patchResponseFromRaw(uid, original, current) ==
    LET cp == CreatePatch(original, current) IN
    IF cp.err # "" THEN responseErrored(uid, StatusInternalServerError, cp.err)
    ELSE AdmissionResponse(uid, TRUE, NoStatus, <<>>,
                           Bytes(patchBytesLoop(cp.patches, 1, <<>>)),
                           IF Len(cp.patches) = 0 THEN "" ELSE PatchTypeJSONPatch)

\* json.NewEncoder(w).Encode(admissionReview): the response as written.  uid and
\* allowed are always written; status, warnings, patch and patchType carry
\* omitempty, so a nil and an empty patch are both left out.
Encode(resp) ==
    [uid |-> resp.UID,
     allowed |-> resp.Allowed,
     hasStatus |-> resp.Result.present,
     code |-> resp.Result.Code,
     message |-> resp.Result.Message,
     warnings |-> resp.Warnings,
     hasPatch |-> Len(resp.Patch.bytes) > 0,
     patch |-> resp.Patch.bytes,
     patchType |-> resp.PatchType]

\* ------------------------------------------------- mutatePods (part_000)

\* mutatePods up to the call of getHostAliasesFromServices.  The response
\* built for a decode error is dropped and the function goes on.
mutatePodsToList(uid, raw) ==
    LET pod == Unmarshal(raw).pod IN
    IF ~isWatching(pod)
    THEN [returned |-> TRUE, response |-> responseAllowed(uid, "Pod is not watching"), pod |-> pod]
    ELSE [returned |-> FALSE, response |-> responseAllowed(uid, ""), pod |-> pod]

\* mutatePods from the return of getHostAliasesFromServices on.
mutatePodsFromList(uid, raw, pod, got) ==
    IF got.err # ""
    THEN responseErrored(uid, StatusInternalServerError,
                         "failed to get host aliases: " \o got.err)
    ELSE IF Len(got.hostAliases) = 0
    THEN responseAllowed(uid, "No host aliases found")
    ELSE LET mutated == Pod(pod.Labels, FALSE, pod.HostAliases \o got.hostAliases)
         IN patchResponseFromRaw(uid, raw, Marshal(mutated))

\* -------------------------------------------------- mutatePods (main.go)

mutatePodsToListMainGo(raw) ==
    LET u == Unmarshal(raw) IN
    IF u.err # ""
    THEN [returned |-> TRUE,
          response |-> AdmissionResponse("", FALSE, Status(0, u.err), <<>>, NilBytes, ""),
          pod |-> u.pod]
    ELSE IF ~isWatching(u.pod)
    THEN [returned |-> TRUE,
          response |-> AdmissionResponse("", TRUE, Status(0, "Pod is not watching"),
                                         <<>>, NilBytes, ""),
          pod |-> u.pod]
    ELSE [returned |-> FALSE,
          response |-> AdmissionResponse("", FALSE, NoStatus, <<>>, NilBytes, ""),
          pod |-> u.pod]

\* The function returns at line 173; the statements after it never run.
mutatePodsFromListMainGo(got) ==
    IF got.err # ""
    THEN AdmissionResponse("", FALSE, NoStatus,
                           <<"Failed to get host aliases: " \o got.err>>, NilBytes, "")
    ELSE IF Len(got.hostAliases) = 0
    THEN AdmissionResponse("", TRUE, Status(0, "No host aliases found"), <<>>, NilBytes, "")
    ELSE AdmissionResponse("", TRUE, NoStatus, <<>>,
             Bytes(MarshalOpList(<<Op("add", "/metadata/labels/env", -1, <<>>, {}, "dev")>>)),
             PatchTypeJSONPatch)

\* ------------------------------------------------------------------ state

VARIABLES
    initClient,   \* sync.Once: "fresh" until Do has run its function, then "done"
    cli,          \* _cli: "nil" or "clientset"
    pc,           \* per request: idle, client, list, done, panicked, httperr
    in,           \* per request: the build serving it, request.uid, request.object.raw
    ctx,          \* per request: the context mutatePods was handed
    cancelled,    \* per request: the transport has cancelled r.Context()
    pod,          \* per request: the decoded Pod
    handle,       \* per request: what client() returned
    outcome,      \* per request: what the Service listing returned
    got,          \* per request: what getHostAliasesFromServices returned
    written       \* per request: the admission response written to the connection

vars == <<initClient, cli, pc, in, ctx, cancelled, pod, handle, outcome, got, written>>

Reqs == 1..NReq

\* entry names the function the request enters by.
Input(entry, build, uid, raw) == [entry |-> entry, build |-> build, uid |-> uid, raw |-> raw]
NoInput == Input("", "", "", NotJSON)
NoOutcome == [err |-> "none", items |-> <<>>]
NoGot == [err |-> "none", hostAliases |-> <<>>]
NoWritten == [sent |-> FALSE, body |-> Encode(responseAllowed("", ""))]
Written(resp) == [sent |-> TRUE, body |-> Encode(resp)]

Init ==
    /\ initClient = "fresh"
    /\ cli = "nil"
    /\ pc = [r \in Reqs |-> "idle"]
    /\ in = [r \in Reqs |-> NoInput]
    /\ ctx = [r \in Reqs |-> ""]
    /\ cancelled = [r \in Reqs |-> FALSE]
    /\ pod = [r \in Reqs |-> ZeroPod]
    /\ handle = [r \in Reqs |-> "nil"]
    /\ outcome = [r \in Reqs |-> NoOutcome]
    /\ got = [r \in Reqs |-> NoGot]
    /\ written = [r \in Reqs |-> NoWritten]

InFlight == { q \in Reqs : pc[q] # "idle" }

\* ---------------------------------------------------------------- actions

\* handleMutatePod from the decoded envelope to the first blocking call:
\* mutatePods is called with context.Background() and either returns a
\* response, which is written, or reaches client().
handleMutatePod(r, raws, limit) ==
    /\ pc[r] = "idle"
    /\ Cardinality(InFlight) < limit
    /\ \E build \in Builds, uid \in UIDs, raw \in raws :
         LET head == IF build = Part000 THEN mutatePodsToList(uid, raw)
                     ELSE mutatePodsToListMainGo(raw)
         IN /\ in' = [in EXCEPT ![r] = Input("mutatePods", build, uid, raw)]
            /\ ctx' = [ctx EXCEPT ![r] = "Background"]
            /\ pod' = [pod EXCEPT ![r] = head.pod]
            /\ IF head.returned
               THEN /\ pc' = [pc EXCEPT ![r] = "done"]
                    /\ written' = [written EXCEPT ![r] = Written(head.response)]
               ELSE /\ pc' = [pc EXCEPT ![r] = "client"]
                    /\ UNCHANGED written
    /\ UNCHANGED <<initClient, cli, cancelled, handle, outcome, got>>

\* handleMutatePod when the envelope does not decode: http.Error, no response.
handleBadEnvelope(r, limit) ==
    /\ pc[r] = "idle"
    /\ Cardinality(InFlight) < limit
    /\ pc' = [pc EXCEPT ![r] = "httperr"]
    /\ UNCHANGED <<initClient, cli, in, ctx, cancelled, pod, handle, outcome, got,
                   written>>

\* client(), first caller: initClient.Do runs newClient under the Once's lock.
\* A failure panics inside Do; the Once is done all the same, and the panic
\* unwinds the handler's goroutine, where the HTTP server recovers it.
clientConstruct(r) ==
    /\ pc[r] = "client"
    /\ initClient = "fresh"
    /\ initClient' = "done"
    /\ \E ok \in BOOLEAN :
         IF ok
         THEN /\ cli' = "clientset"
              /\ handle' = [handle EXCEPT ![r] = "clientset"]
              /\ pc' = [pc EXCEPT ![r] = "list"]
         ELSE /\ pc' = [pc EXCEPT ![r] = "panicked"]
              /\ UNCHANGED <<cli, handle>>
    /\ UNCHANGED <<in, ctx, cancelled, pod, outcome, got, written>>

\* client(), any later caller: Do returns at once and _cli is handed back.
clientReuse(r) ==
    /\ pc[r] = "client"
    /\ initClient = "done"
    /\ handle' = [handle EXCEPT ![r] = cli]
    /\ pc' = [pc EXCEPT ![r] = "list"]
    /\ UNCHANGED <<initClient, cli, in, ctx, cancelled, pod, outcome, got, written>>

\* client().CoreV1() on a nil *Clientset: a nil dereference, recovered by the
\* HTTP server like any handler panic.
nilHandle(r) ==
    /\ pc[r] = "list"
    /\ handle[r] = "nil"
    /\ pc' = [pc EXCEPT ![r] = "panicked"]
    /\ UNCHANGED <<initClient, cli, in, ctx, cancelled, pod, handle, outcome, got,
                   written>>

\* The context the List call runs under: main.go's getHostAliasesFromServices
\* builds its own context.Background(); part_000's uses the one it is handed.
listContext(build, c) == IF build = MainGo THEN "Background" ELSE c

\* The Service listing returns (a cancelled context makes it return early),
\* mutatePods runs to its return and handleMutatePod writes the response.
servicesList(r, outcomes) ==
    /\ pc[r] = "list"
    /\ handle[r] # "nil"
    /\ \E o \in outcomes :
         LET ret == IF listContext(in[r].build, ctx[r]) = "Request" /\ cancelled[r]
                    THEN ListErr("context canceled")
                    ELSE o
             g == getHostAliasesFromServices(ret)
             resp == IF in[r].build = Part000
                     THEN mutatePodsFromList(in[r].uid, in[r].raw, pod[r], g)
                     ELSE mutatePodsFromListMainGo(g)
         IN /\ outcome' = [outcome EXCEPT ![r] = ret]
            /\ got' = [got EXCEPT ![r] = g]
            /\ written' = [written EXCEPT ![r] = Written(resp)]
    /\ pc' = [pc EXCEPT ![r] = "done"]
    /\ UNCHANGED <<initClient, cli, in, ctx, cancelled, pod, handle>>

\* The transport cancels the request (client gone, deadline passed) while the
\* handler is between its start and its return.
cancel(r) ==
    /\ pc[r] \in {"client", "list"}
    /\ ~cancelled[r]
    /\ cancelled' = [cancelled EXCEPT ![r] = TRUE]
    /\ UNCHANGED <<initClient, cli, pc, in, ctx, pod, handle, outcome, got, written>>

\* The handler has returned (or panicked) and the slot serves the next request.
finish(r) ==
    /\ pc[r] \in {"done", "panicked", "httperr"}
    /\ pc' = [pc EXCEPT ![r] = "idle"]
    /\ in' = [in EXCEPT ![r] = NoInput]
    /\ ctx' = [ctx EXCEPT ![r] = ""]
    /\ cancelled' = [cancelled EXCEPT ![r] = FALSE]
    /\ pod' = [pod EXCEPT ![r] = ZeroPod]
    /\ handle' = [handle EXCEPT ![r] = "nil"]
    /\ outcome' = [outcome EXCEPT ![r] = NoOutcome]
    /\ got' = [got EXCEPT ![r] = NoGot]
    /\ written' = [written EXCEPT ![r] = NoWritten]
    /\ UNCHANGED <<initClient, cli>>

\* patchResponseFromRaw called on its own, as a test of the function calls it:
\* with some original bytes and the encoding of some Pod.
ProbeOriginals ==
    { NotJSON,
      Raw(TRUE, Doc(Labels(TRUE, {<<"k8s-app", "x">>}), Aliases(FALSE, <<>>), "canonical")),
      Raw(TRUE, Doc(Labels(TRUE, {<<"k8s-app", "x">>}), Aliases(TRUE, <<PreAlias>>), "sparse")) }
ProbePods ==
    { Pod({<<"k8s-app", "x">>}, TRUE, <<>>),
      Pod({<<"k8s-app", "x">>}, FALSE, <<PreAlias>>) }

callPatchResponseFromRaw(r, limit) ==
    /\ pc[r] = "idle"
    /\ Cardinality(InFlight) < limit
    /\ \E uid \in UIDs, original \in ProbeOriginals, current \in ProbePods :
         /\ in' = [in EXCEPT ![r] = Input("patchResponseFromRaw", Part000, uid, original)]
         /\ pod' = [pod EXCEPT ![r] = current]
         /\ written' = [written EXCEPT ![r] =
                           Written(patchResponseFromRaw(uid, original, Marshal(current)))]
    /\ pc' = [pc EXCEPT ![r] = "done"]
    /\ UNCHANGED <<initClient, cli, ctx, cancelled, handle, outcome, got>>

\* ----------------------------------------------------------- specifications

\* Requests served one at a time, over the full input domains.
Next ==
    \/ \E r \in Reqs : handleMutatePod(r, Raws, 1)
    \/ \E r \in Reqs : handleBadEnvelope(r, 1)
    \/ \E r \in Reqs : clientConstruct(r)
    \/ \E r \in Reqs : clientReuse(r)
    \/ \E r \in Reqs : nilHandle(r)
    \/ \E r \in Reqs : servicesList(r, ListOutcomes)
    \/ \E r \in Reqs : cancel(r)
    \/ \E r \in Reqs : finish(r)
    \/ \E r \in Reqs : callPatchResponseFromRaw(r, 1)

Spec == Init /\ [][Next]_vars

\* Requests served concurrently, over the small input domains.
NextConc ==
    \/ \E r \in Reqs : handleMutatePod(r, RawsSmall, NReq)
    \/ \E r \in Reqs : handleBadEnvelope(r, NReq)
    \/ \E r \in Reqs : clientConstruct(r)
    \/ \E r \in Reqs : clientReuse(r)
    \/ \E r \in Reqs : nilHandle(r)
    \/ \E r \in Reqs : servicesList(r, ListOutcomesSmall)
    \/ \E r \in Reqs : cancel(r)
    \/ \E r \in Reqs : finish(r)

SpecConc == Init /\ [][NextConc]_vars

\* ------------------------------------------------- what the claims speak of

\* A request that entered by mutatePods and whose response has been written.
Served(r) == pc[r] = "done" /\ written[r].sent /\ in[r].entry = "mutatePods"
\* A direct call of patchResponseFromRaw whose response has been encoded.
Probed(r) == pc[r] = "done" /\ written[r].sent /\ in[r].entry = "patchResponseFromRaw"

\* The request's object decodes into a Pod.
Decodes(raw) == raw.valid /\ raw.doc.rest # "badtype"
\* The Pod document carries the marker label key, whatever its value.
HasMarker(raw) == raw.valid /\ \E kv \in raw.doc.labels.kv : kv[1] = "k8s-app"
\* The listing succeeded / failed.
ListingOK(r) == outcome[r].err = ""
ListingFailed(r) == outcome[r].err \notin {"", "none"}

Qualifies(s) == s.type = "ClusterIP" /\ s.clusterIP # "" /\ s.clusterIP # "None"
Qualifying(items) == SelectSeq(items, Qualifies)

\* The three host names of the Services of the model, written out.
ExpectedHostnames(s) ==
    CASE s.name = "db" /\ s.namespace = "prod" ->
           <<"db.prod.svc.cluster.local", "db.prod.svc", "db.prod">>
      [] s.name = "web" /\ s.namespace = "dev" ->
           <<"web.dev.svc.cluster.local", "web.dev.svc", "web.dev">>
      [] s.name = "np" /\ s.namespace = "prod" ->
           <<"np.prod.svc.cluster.local", "np.prod.svc", "np.prod">>
      [] OTHER -> <<>>

\* A JSON Patch document as the API server decodes it: one array of
\* operation objects separated by commas.
IsOpList(bytes) ==
    /\ Len(bytes) >= 2
    /\ bytes[1].t = "["
    /\ bytes[Len(bytes)].t = "]"
    /\ Len(bytes) = 2 \/ Len(bytes) % 2 = 1
    /\ \A i \in 2..(Len(bytes) - 1) :
         bytes[i].t = (IF i % 2 = 0 THEN "op" ELSE ",")
OpsOf(bytes) == [i \in 1..((Len(bytes) - 1) \div 2) |-> bytes[2 * i].o]

\* RFC 6902 application of one operation to a Pod document.
Failed(doc) == [ok |-> FALSE, doc |-> doc]
Applied(doc) == [ok |-> TRUE, doc |-> doc]
ApplyOp(doc, o) ==
    CASE o.path = "/metadata/labels" /\ o.op = "add" ->
           Applied([doc EXCEPT !.labels = Labels(TRUE, o.kv)])
      [] o.path = "/metadata/labels" /\ o.op = "replace" /\ doc.labels.present ->
           Applied([doc EXCEPT !.labels = Labels(TRUE, o.kv)])
      [] o.path = "/metadata/labels" /\ o.op = "remove" /\ doc.labels.present ->
           Applied([doc EXCEPT !.labels = Labels(FALSE, {})])
      [] o.path = "/metadata/labels/env" /\ o.op = "add" /\ doc.labels.present ->
           Applied([doc EXCEPT !.labels =
                      Labels(TRUE, {kv \in doc.labels.kv : kv[1] # "env"}
                                       \cup {<<"env", o.sval>>})])
      [] o.path = "/spec/hostAliases" /\ o.op = "add" ->
           Applied([doc EXCEPT !.hostAliases = Aliases(TRUE, o.aliases)])
      [] o.path = "/spec/hostAliases" /\ o.op = "replace" /\ doc.hostAliases.present ->
           Applied([doc EXCEPT !.hostAliases = Aliases(TRUE, o.aliases)])
      [] o.path = "/spec/hostAliases" /\ o.op = "remove" /\ doc.hostAliases.present ->
           Applied([doc EXCEPT !.hostAliases = Aliases(FALSE, <<>>)])
      [] o.path = "/spec/hostAliases/" /\ o.op = "add" /\ doc.hostAliases.present
            /\ o.idx >= 0 /\ o.idx <= Len(doc.hostAliases.items) ->
           Applied([doc EXCEPT !.hostAliases =
                      Aliases(TRUE,
                              SubSeq(doc.hostAliases.items, 1, o.idx) \o o.aliases
                                \o SubSeq(doc.hostAliases.items, o.idx + 1,
                                          Len(doc.hostAliases.items)))])
      [] o.path = "/spec/containers" /\ o.op = "replace" ->
           Applied([doc EXCEPT !.rest = "canonical"])
      [] o.path = "/status" /\ o.op = "add" ->
           Applied([doc EXCEPT !.rest = "canonical"])
      [] OTHER -> Failed(doc)

RECURSIVE ApplyOps(_, _, _)
ApplyOps(doc, ops, i) ==
    IF i > Len(ops) THEN Applied(doc)
    ELSE LET one == ApplyOp(doc, ops[i]) IN
         IF one.ok THEN ApplyOps(one.doc, ops, i + 1) ELSE one

\* The API server applying the patch bytes of a response to the original.
ApplyPatch(doc, bytes) ==
    IF IsOpList(bytes) THEN ApplyOps(doc, OpsOf(bytes), 1) ELSE Failed(doc)

\* ------------------------------------------------------------------ claims

\* C1: every response mutatePods returns, of whatever shape, carries the UID
\* of the request it answers.
C1_UidPreserved ==
    \A r \in Reqs : Served(r) => written[r].body.uid = in[r].uid

\* C2: a request whose object bytes do not decode into a Pod ends with a
\* denial (allowed=false, a status message, a 4xx code), never with
\* allowed=true, and never goes on to client() or the Service listing.
C2_DecodeFailureDenied ==
    \A r \in Reqs :
        (in[r].entry = "mutatePods" /\ ~Decodes(in[r].raw)) =>
            /\ pc[r] \notin {"client", "list", "panicked"}
            /\ Served(r) =>
                 /\ ~written[r].body.allowed
                 /\ written[r].body.hasStatus
                 /\ written[r].body.message # ""
                 /\ written[r].body.code >= 400
                 /\ written[r].body.code < 500

\* C3: a failed Service listing is answered either fail-open (allowed=true,
\* warnings, no patch) or fail-closed (allowed=false, status message and
\* code), the same way for every such request, and the failure shows in the
\* warnings or in the status message.
FailOpen(b) == b.allowed /\ Len(b.warnings) > 0 /\ ~b.hasPatch
FailClosed(b) == ~b.allowed /\ b.hasStatus /\ b.message # "" /\ b.code # 0
C3_DirectoryFailureShape ==
    /\ \A r \in Reqs :
         (Served(r) /\ ListingFailed(r)) =>
             FailOpen(written[r].body) \/ FailClosed(written[r].body)
    /\ \A r, q \in Reqs :
         (Served(r) /\ ListingFailed(r) /\ Served(q) /\ ListingFailed(q)) =>
             written[r].body.allowed = written[q].body.allowed

\* C4: for a Pod with the marker label and a listing with a qualifying
\* Service, the response is allowed with a patch, and the patch applied to the
\* original Pod gives the original host aliases followed by the derived ones,
\* the other fields unchanged.
C4_PatchAppendsAliases ==
    \A r \in Reqs :
        (Served(r) /\ Decodes(in[r].raw) /\ HasMarker(in[r].raw)
           /\ ListingOK(r) /\ Len(Qualifying(outcome[r].items)) >= 1) =>
            /\ written[r].body.allowed
            /\ written[r].body.hasPatch
            /\ LET res == ApplyPatch(in[r].raw.doc, written[r].body.patch) IN
                 /\ res.ok
                 /\ res.doc.hostAliases.items =
                      in[r].raw.doc.hostAliases.items \o got[r].hostAliases
                 /\ res.doc.labels.kv = in[r].raw.doc.labels.kv

\* C5: a response carries a patch only for a Pod with the marker label key and
\* a listing with a qualifying Service; a Pod that decodes and lacks the key,
\* or a listing that succeeds with no qualifying Service, is answered
\* allowed=true with neither patch nor patchType.
C5_PatchOnlyWhenEligible ==
    \A r \in Reqs :
        Served(r) =>
            /\ written[r].body.hasPatch =>
                 /\ HasMarker(in[r].raw)
                 /\ ListingOK(r)
                 /\ Len(Qualifying(outcome[r].items)) >= 1
            /\ (Decodes(in[r].raw)
                  /\ (~HasMarker(in[r].raw)
                        \/ (ListingOK(r) /\ Len(Qualifying(outcome[r].items)) = 0))) =>
                 /\ written[r].body.allowed
                 /\ ~written[r].body.hasPatch
                 /\ written[r].body.patchType = ""

C5_Witness ==
    \E r \in Reqs :
        /\ Served(r)
        /\ HasMarker(in[r].raw)
        /\ ListingOK(r)
        /\ Len(outcome[r].items) = 2
        /\ Len(Qualifying(outcome[r].items)) = 0
        /\ written[r].body.allowed
        /\ ~written[r].body.hasPatch

\* C6: for a listing that succeeded, getHostAliasesFromServices returns one
\* alias per ClusterIP Service with a concrete IP, in listing order, its ip the
\* clusterIP and its host names name.ns.svc.cluster.local, name.ns.svc,
\* name.ns; no other Service contributes.
C6_AliasesFromServices ==
    \A r \in Reqs :
        (pc[r] = "done" /\ ListingOK(r)) =>
            LET Q == Qualifying(outcome[r].items) IN
            /\ got[r].err = ""
            /\ Len(got[r].hostAliases) = Len(Q)
            /\ \A i \in 1..Len(Q) :
                 /\ got[r].hostAliases[i].IP = Q[i].clusterIP
                 /\ got[r].hostAliases[i].Hostnames = ExpectedHostnames(Q[i])

C6_Witness ==
    \E r \in Reqs :
        /\ pc[r] = "done"
        /\ ListingOK(r)
        /\ outcome[r].items = << Svc("hl", "prod", "ClusterIP", "None"),
                                 Svc("web", "dev", "ClusterIP", "10.0.0.6") >>
        /\ got[r].hostAliases =
             << HostAlias("10.0.0.6", <<"web.dev.svc.cluster.local", "web.dev.svc", "web.dev">>) >>

\* C7: in every response written, a patch implies a patchType and a patchType
\* implies allowed=true; a diff of a document with itself gives a response
\* with neither patch nor patchType.
C7_PatchTypeConsistent ==
    \A r \in Reqs :
        (pc[r] = "done" /\ written[r].sent) =>
            /\ written[r].body.hasPatch => written[r].body.patchType # ""
            /\ written[r].body.patchType # "" => written[r].body.allowed
            /\ (Probed(r) /\ in[r].raw.valid /\ in[r].raw.doc = Marshal(pod[r])) =>
                 /\ ~written[r].body.hasPatch
                 /\ written[r].body.patchType = ""

C7_Witness ==
    \E r \in Reqs :
        /\ Probed(r)
        /\ in[r].raw.valid
        /\ in[r].raw.doc = Marshal(pod[r])
        /\ written[r].body.allowed
        /\ ~written[r].body.hasPatch

\* C8: no request is at the Service listing with a nil handle: a failed
\* construction stops the process, so no later request goes on without it.
C8_HandleNeverMissing ==
    \A r \in Reqs : pc[r] = "list" => handle[r] = "clientset"

\* C9: the patch bytes of a JSONPatch response are one JSON array holding the
\* operations, never a bare operation object nor objects one after another.
C9_PatchIsOperationList ==
    \A r \in Reqs :
        (Served(r) /\ written[r].body.hasPatch
           /\ written[r].body.patchType = PatchTypeJSONPatch) =>
            IsOpList(written[r].body.patch)

\* C10: once the transport has cancelled a request, its Service listing is
\* abandoned: the listing call ends with the context's error, never with a
\* listing or an error of the directory's own.
C10_CancelAbandonsListing ==
    [][\A r \in Reqs :
          (pc[r] = "list" /\ cancelled[r] /\ pc'[r] = "done") =>
              outcome'[r].err = "context canceled"]_vars

====
